---- MODULE Spec2Model ----
(***************************************************************************)
(* mark42 hooks: the PostToolUse event recorder (hooks/post-tool-use.py)   *)
(* and the Stop turn gate (hooks/stop.py) sharing the state directory      *)
(* <project>/.claude/mark42 (dirty-files, session-events, stop-prompted).  *)
(*                                                                         *)
(* Text is modelled as a sequence of atoms.  An atom is a short piece of   *)
(* text ("/", "a", " [", "git", ...).  No atom used in a stored line is a  *)
(* prefix of another one, so comparing atom sequences atom by atom gives   *)
(* the same order as comparing the texts character by character.  The two  *)
(* characters " [" always travel as the single atom " [".                  *)
(***************************************************************************)
EXTENDS Integers, Sequences, FiniteSets, TLC

VARIABLES
    project_dir,  \* CLAUDE_PROJECT_DIR, empty when unset
    config,       \* triggerMode of .claude/mark42/config.json
    flag_file,    \* .claude/mark42/stop-prompted exists
    dirty_file,   \* .claude/mark42/dirty-files
    event_file,   \* .claude/mark42/session-events
    now,          \* the clock, one tick per hook invocation
    last,         \* the hook invoked last: "none", "recorder" or "gate"
    lastCall,     \* the last recorder invocation: its tool record and what git answered
    out,          \* what the last invocation printed
    reports,      \* history: the blocking decisions printed so far
    consumed,     \* history: the lines and events the gate has cleared
    gateCalls,    \* history: number of gate invocations
    inflight,     \* per recorder process: where it stands and what it has read
    race,         \* history: what overlapped with what
    err           \* the last invocation ended in an uncaught exception

vars == <<project_dir, config, flag_file, dirty_file, event_file,
          now, last, lastCall, out, reports, consumed, gateCalls,
          inflight, race, err>>

-----------------------------------------------------------------------------
(* Bounds *)

\* number of hook invocations explored in the main specification
MaxTime == 4

\* number of hook invocations explored in the event-cap specification
MaxEvTime == 53

\* number of gate invocations explored in the event-cap specification
MaxEvGates == 1

(* Program constants *)

FilesCap == 5

EventsCap == 50

CommandCap == 200

-----------------------------------------------------------------------------
(* Text helpers *)

SP == " "

SL == "/"

BR == " ["

Take(s, n) == IF Len(s) <= n THEN s ELSE SubSeq(s, 1, n)

Drop(s, n) == IF Len(s) <= n THEN <<>> ELSE SubSeq(s, n + 1, Len(s))

StartsWith(s, p) == Len(p) <= Len(s) /\ SubSeq(s, 1, Len(p)) = p

\* Python: p in s (substring test)
Contains(s, p) == \E i \in 0..(Len(s) - Len(p)) : SubSeq(s, i + 1, i + Len(p)) = p

RECURSIVE LStrip(_)
LStrip(s) == IF s # <<>> /\ Head(s) = SP THEN LStrip(Tail(s)) ELSE s

RECURSIVE RStrip(_)
RStrip(s) == IF s # <<>> /\ s[Len(s)] = SP THEN RStrip(SubSeq(s, 1, Len(s) - 1)) ELSE s

\* Python: str.strip()
Strip(s) == RStrip(LStrip(s))

\* index of the first atom equal to a, 0 when there is none
RECURSIVE IndexFrom(_, _, _)
IndexFrom(s, a, i) ==
    IF i > Len(s) THEN 0
    ELSE IF s[i] = a THEN i
    ELSE IndexFrom(s, a, i + 1)

\* Python: str.split(sep) for a one-atom separator, empty pieces kept
RECURSIVE Split(_, _)
Split(s, a) ==
    LET i == IndexFrom(s, a, 1)
    IN IF i = 0 THEN <<s>>
       ELSE <<SubSeq(s, 1, i - 1)>> \o Split(Drop(s, i), a)

NonEmpty(x) == x # <<>>

Range(s) == {s[i] : i \in DOMAIN s}

-----------------------------------------------------------------------------
(* Paths (pathlib) *)

IsAbs(s) == s # <<>> /\ Head(s) = SL

IsPart(x) == x # <<>> /\ x # <<".">>

\* pathlib: Path(s).parts without the root; empty and "." segments vanish
Parts(s) == SelectSeq(Split(s, SL), IsPart)

RECURSIVE JoinParts(_)
JoinParts(ps) == IF ps = <<>> THEN <<>> ELSE <<SL>> \o Head(ps) \o JoinParts(Tail(ps))

\* pathlib: Path(pd) / f
JoinPath(pd, f) == IF IsAbs(f) THEN f ELSE pd \o <<SL>> \o f

RECURSIVE Normalize(_, _)
Normalize(ps, acc) ==
    IF ps = <<>> THEN acc
    ELSE IF Head(ps) = <<"..">>
         THEN Normalize(Tail(ps), IF acc = <<>> THEN acc ELSE SubSeq(acc, 1, Len(acc) - 1))
         ELSE Normalize(Tail(ps), Append(acc, Head(ps)))

\* pathlib: str(Path(s).resolve()) for an absolute s, no symbolic links
Resolve(s) ==
    LET ps == Normalize(Parts(s), <<>>)
    IN IF ps = <<>> THEN <<SL>> ELSE JoinParts(ps)

should_track(file_path, pd) ==
    LET parts == Parts(file_path)
        root  == Parts(pd)
        relative == Drop(parts, Len(root))
    IN /\ IsAbs(file_path)
       /\ StartsWith(parts, root)
       /\ ~(relative # <<>> /\ relative[1] = <<".claude">>)
       /\ ~(parts # <<>> /\ parts[Len(parts)] = <<"CLAUDE.md">>)

-----------------------------------------------------------------------------
(* Shell commands *)

QT == "'"

\* shlex.split: blanks separate words, single quotes group and are removed,
\* a quote left open is a ValueError
RECURSIVE ShlexScan(_, _, _, _, _)
ShlexScan(rest, cur, started, inq, acc) ==
    IF rest = <<>>
    THEN IF inq THEN [ok |-> FALSE, tokens |-> <<>>]
         ELSE [ok |-> TRUE, tokens |-> IF started THEN Append(acc, cur) ELSE acc]
    ELSE LET a == Head(rest)
             r == Tail(rest)
         IN IF inq
            THEN IF a = QT THEN ShlexScan(r, cur, TRUE, FALSE, acc)
                 ELSE ShlexScan(r, Append(cur, a), TRUE, TRUE, acc)
            ELSE IF a = QT THEN ShlexScan(r, cur, TRUE, TRUE, acc)
            ELSE IF a = SP
                 THEN ShlexScan(r, <<>>, FALSE, FALSE,
                                IF started THEN Append(acc, cur) ELSE acc)
            ELSE ShlexScan(r, Append(cur, a), TRUE, FALSE, acc)

shlex_split(command) == ShlexScan(command, <<>>, FALSE, FALSE, <<>>)

skip_prefixes ==
    { <<"ls">>, <<"cat">>, <<"echo">>, <<"grep">>, <<"find">>, <<"head">>,
      <<"tail">>, <<"less">>, <<"more">>, <<"cd">>, <<"pwd">>, <<"which">>,
      <<"whereis">>, <<"type">>, <<"file">>, <<"stat">>, <<"wc">>,
      <<"git", SP, "status">>, <<"git", SP, "log">>, <<"git", SP, "diff">>,
      <<"git", SP, "show">>, <<"git", SP, "branch">>, <<"git", SP, "fetch">>,
      <<"git", SP, "pull">>, <<"git", SP, "push">>, <<"git", SP, "clone">>,
      <<"git", SP, "checkout">>, <<"git", SP, "stash">>, <<"git", SP, "remote">>,
      <<"git", SP, "tag">>, <<"git", SP, "rev-parse">>,
      <<"npm", SP>>, <<"yarn", SP>>, <<"pnpm", SP>>, <<"node", SP>>,
      <<"python">>, <<"pip", SP>>, <<"uv", SP>>, <<"cargo", SP>>, <<"go", SP>>,
      <<"make">>, <<"cmake">>, <<"docker", SP>>, <<"kubectl", SP>>,
      <<"curl", SP>>, <<"wget", SP>>, <<"ssh", SP>>, <<"scp", SP>>,
      <<"rsync", SP>> }

shell_operators ==
    { <<"&&">>, <<"||">>, <<";">>, <<"|">>, <<">">>, <<">>">>, <<"<">>,
      <<"2>">>, <<"2>&1">> }

\* atoms whose text begins with "-"
FlagAtoms == {"-", "--", "-f", "-r", "-rf", "-v"}

\* Python: token.startswith("-")
IsFlag(token) == token # <<>> /\ Head(token) \in FlagAtoms

\* the loop of the rm branches: non-flag tokens up to the first operator
RECURSIVE ArgsUntilOperator(_)
ArgsUntilOperator(tokens) ==
    IF tokens = <<>> \/ Head(tokens) \in shell_operators THEN <<>>
    ELSE (IF IsFlag(Head(tokens)) THEN <<>> ELSE <<Head(tokens)>>)
         \o ArgsUntilOperator(Tail(tokens))

\* the loop of the mv branches: the first non-flag token before an operator
FirstArg(tokens) == Take(ArgsUntilOperator(tokens), 1)

RECURSIVE ResolveAll(_, _)
ResolveAll(fs, pd) ==
    IF fs = <<>> THEN <<>>
    ELSE <<Resolve(JoinPath(pd, Head(fs)))>> \o ResolveAll(Tail(fs), pd)

\* mutant: every argument of every parseable command is a file
extract_files_from_bashAll(command0, pd) ==
    ResolveAll(Drop(shlex_split(Strip(command0)).tokens, 1), pd)

extract_files_from_bash(command0, pd) ==
    LET command == Strip(command0)
        sh      == shlex_split(command)
        tokens  == sh.tokens
        cmd     == tokens[1]
        files   ==
            IF cmd = <<"rm">> THEN ArgsUntilOperator(Tail(tokens))
            ELSE IF cmd = <<"git">> /\ Len(tokens) > 1 /\ tokens[2] = <<"rm">>
                 THEN ArgsUntilOperator(Drop(tokens, 2))
            ELSE IF cmd = <<"mv">> /\ Len(tokens) >= 3
                 THEN FirstArg(Tail(tokens))
            ELSE IF cmd = <<"git">> /\ Len(tokens) > 2 /\ tokens[2] = <<"mv">>
                 THEN FirstArg(Drop(tokens, 2))
            ELSE IF cmd = <<"unlink">> /\ Len(tokens) > 1
                 THEN (IF tokens[2] \in shell_operators THEN <<>> ELSE <<tokens[2]>>)
            ELSE <<>>
    IN IF command = <<>> THEN <<>>
       ELSE IF \E p \in skip_prefixes : StartsWith(command, p) THEN <<>>
       ELSE IF ~sh.ok \/ tokens = <<>> THEN <<>>
       ELSE ResolveAll(files, pd)

-----------------------------------------------------------------------------
(* git *)

\* what the two git subprocesses answer; spawn is FALSE when there is no git
\* to run and subprocess.run raises FileNotFoundError
GitRun(lrc, lout, drc, dout) ==
    [spawn |-> TRUE, log_rc |-> lrc, log_out |-> lout, diff_rc |-> drc, diff_out |-> dout]

GitMissing ==
    [spawn |-> FALSE, log_rc |-> 1, log_out |-> <<>>, diff_rc |-> 1, diff_out |-> <<>>]

NoGit == GitRun(1, <<>>, 1, <<>>)

NoContext == [present |-> FALSE, hash |-> <<>>, message |-> <<>>]

StripAll(ls) == [i \in DOMAIN ls |-> Strip(ls[i])]

\* git is the outcome of the two subprocesses: log_rc, log_out, diff_rc, diff_out
handle_git_commit(pd, git) ==
    LET text == Strip(git.log_out)
        i    == IndexFrom(text, SP, 1)
        commit_hash == IF i = 0 THEN text ELSE SubSeq(text, 1, i - 1)
        commit_message == IF i = 0 THEN <<>> ELSE Drop(text, i)
        ctx  == [present |-> TRUE, hash |-> commit_hash, message |-> commit_message]
        names == SelectSeq(StripAll(git.diff_out), NonEmpty)
    IN IF git.log_rc # 0 THEN [files |-> <<>>, commit_context |-> NoContext]
       ELSE IF git.diff_rc # 0 THEN [files |-> <<>>, commit_context |-> ctx]
       ELSE [files |-> ResolveAll(names, pd), commit_context |-> ctx]

-----------------------------------------------------------------------------
(* The dirty-files store: read-modify-write of post-tool-use.py *)

NoFile == [exists |-> FALSE, lines |-> <<>>]

\* the lines a reader sees: stripped, blank ones skipped
ReadLines(file) == SelectSeq(StripAll(file.lines), NonEmpty)

\* line.split(" [")[0] if " [" in line else line
LineKey(line) ==
    LET i == IndexFrom(line, BR, 1)
    IN IF i = 0 THEN line ELSE SubSeq(line, 1, i - 1)

HasKey(d, k) == \E i \in DOMAIN d : d[i].k = k

\* Python dict assignment: a known key keeps its place, a new key goes last
DictSet(d, k, v) ==
    IF HasKey(d, k)
    THEN [i \in DOMAIN d |-> IF d[i].k = k THEN [k |-> k, v |-> v] ELSE d[i]]
    ELSE Append(d, [k |-> k, v |-> v])

DictValues(d) == [i \in DOMAIN d |-> d[i].v]

\* lines 218-226: the dict loaded from the file
RECURSIVE LoadExisting(_, _)
LoadExisting(lines, d) ==
    IF lines = <<>> THEN d
    ELSE LoadExisting(Tail(lines), DictSet(d, LineKey(Head(lines)), Head(lines)))

\* f"{file_path} [{hash}: {message}]"
ContextLine(file_path, ctx) ==
    file_path \o <<BR>> \o ctx.hash \o <<": ">> \o ctx.message \o <<"]">>

\* lines 228-233: one trackable path merged into the dict
MergeOne(d, file_path, ctx) ==
    IF ctx.present THEN DictSet(d, file_path, ContextLine(file_path, ctx))
    ELSE IF ~HasKey(d, file_path) THEN DictSet(d, file_path, file_path)
    ELSE d

RECURSIVE MergeAll(_, _, _)
MergeAll(d, trackable, ctx) ==
    IF trackable = <<>> THEN d
    ELSE MergeAll(MergeOne(d, Head(trackable), ctx), Tail(trackable), ctx)

\* lines 215-237: the file after the write-back
MergeDirty(file, trackable, ctx) ==
    LET existing == IF file.exists THEN LoadExisting(ReadLines(file), <<>>) ELSE <<>>
    IN [exists |-> TRUE, lines |-> DictValues(MergeAll(existing, trackable, ctx))]

-----------------------------------------------------------------------------
(* The recorder: main() of post-tool-use.py *)

is_git_commit(inp) ==
    inp.tool_name = "Bash" /\ Contains(Strip(inp.command), <<"git", SP, "commit">>)

files_to_track(inp, pd, git) ==
    IF is_git_commit(inp) THEN handle_git_commit(pd, git).files
    ELSE IF inp.tool_name \in {"Edit", "Write"}
         THEN (IF inp.file_path # <<>> THEN <<inp.file_path>> ELSE <<>>)
    ELSE IF inp.tool_name = "Bash" THEN extract_files_from_bash(inp.command, pd)
    ELSE IF inp.tool_name = ""
         THEN (IF inp.file_path # <<>> THEN <<inp.file_path>> ELSE <<>>)
    ELSE <<>>

commit_context(inp, pd, git) ==
    IF is_git_commit(inp) THEN handle_git_commit(pd, git).commit_context ELSE NoContext

Trackable(inp, pd, git) ==
    LET Tracked(f) == should_track(f, pd)
    IN SelectSeq(files_to_track(inp, pd, git), Tracked)

\* lines 243-247: the session event of one invocation
MakeEvent(inp, trackable, t) ==
    [toolName  |-> inp.tool_name,
     timestamp |-> t,
     filePath  |-> IF inp.tool_name \in {"Edit", "Write"} /\ trackable # <<>>
                   THEN trackable[1] ELSE <<>>,
     command   |-> IF inp.tool_name \notin {"Edit", "Write"} /\ inp.tool_name = "Bash"
                      /\ Strip(inp.command) # <<>>
                   THEN Take(Strip(inp.command), CommandCap) ELSE <<>>]

NoInput == [tool_name |-> "", file_path |-> <<>>, command |-> <<>>]

NoCall == [inp |-> NoInput, git |-> NoGit]

NoOutput == [decision |-> "none", files |-> <<>>, event_count |-> 0, events |-> <<>>]

\* line 195: subprocess.run has no handler around it
GitRaises(inp, git) == is_git_commit(inp) /\ ~git.spawn

\* mutant: the trigger mode is not consulted
RecorderExitNoMode(inp, git) ==
    IF project_dir = <<>> THEN "nodir"
    ELSE IF GitRaises(inp, git) THEN "raised"
    ELSE IF files_to_track(inp, project_dir, git) = <<>> THEN "nofiles"
    ELSE IF Trackable(inp, project_dir, git) = <<>> THEN "notrack"
    ELSE "written"
\* where main() ends: it returns at "nodir", "gitmode", "nofiles", "notrack"
\* or "written", and dies of an exception at "raised"
RecorderExit(inp, git) ==
    IF project_dir = <<>> THEN "nodir"
    ELSE IF config = "gitmode" /\ ~is_git_commit(inp) THEN "gitmode"
    ELSE IF GitRaises(inp, git) THEN "raised"
    ELSE IF files_to_track(inp, project_dir, git) = <<>> THEN "nofiles"
    ELSE IF Trackable(inp, project_dir, git) = <<>> THEN "notrack"
    ELSE "written"

\* main() from the point where the store has been read: existing is the
\* content of dirty-files that lines 218-226 saw
WriteBack(existing, inp, git) ==
    /\ now' = now + 1
    /\ last' = "recorder"
    /\ lastCall' = [inp |-> inp, git |-> git]
    /\ out' = NoOutput
    /\ err' = (RecorderExit(inp, git) = "raised")
    /\ IF RecorderExit(inp, git) = "written"
       THEN LET trackable == Trackable(inp, project_dir, git)
            IN /\ dirty_file' = MergeDirty(existing, trackable,
                                           commit_context(inp, project_dir, git))
               /\ event_file' = [exists |-> TRUE,
                                 lines  |-> Append(event_file.lines,
                                                   MakeEvent(inp, trackable, now))]
       ELSE UNCHANGED <<dirty_file, event_file>>
    /\ UNCHANGED <<project_dir, config, flag_file, reports, consumed, gateCalls>>

\* one recorder invocation that runs alone: it writes back what it has just read
PostToolUse(inp, git) == WriteBack(dirty_file, inp, git)

-----------------------------------------------------------------------------
(* The turn gate: main() of hooks/stop.py *)

\* mutant: the latch is not consulted
GateFiresNoLatch(pd, flag) == pd # <<>>

\* lines 11-18: the gate evaluates only with a project and without the latch
GateFires(pd, flag) == pd # <<>> /\ ~flag

\* mutant: the [:5] slice is missing
GateFilesNoCap(file) ==
    IF file.exists /\ file.lines # <<>> THEN ReadLines(file) ELSE <<>>

\* lines 30-34
GateFiles(file) ==
    IF file.exists /\ file.lines # <<>> THEN Take(ReadLines(file), FilesCap) ELSE <<>>

\* lines 36-46: every line the recorder wrote is one JSON object
GateEvents(file) == IF file.exists /\ file.lines # <<>> THEN file.lines ELSE <<>>

\* the last n elements of s
LastN(s, n) == IF Len(s) <= n THEN s ELSE SubSeq(s, Len(s) - n + 1, Len(s))

\* mutant: the cap keeps the newest events, events[-50:]
CapEventsRecent(events) == LastN(events, EventsCap)

\* line 52: events[:50]
CapEvents(events) == Take(events, EventsCap)

\* lines 48-67: the fields of the printed decision
Decision(dfile, efile) ==
    [decision    |-> "block",
     files       |-> GateFiles(dfile),
     event_count |-> Len(GateEvents(efile)),
     events      |-> CapEvents(GateEvents(efile))]

\* lines 70-71 and 72-73: write_text("") on a file that exists
Cleared(file) == IF file.exists THEN [exists |-> TRUE, lines |-> <<>>] ELSE file

\* mutant: the buffers are cleared before the latch is looked at
StopDirtyAlways(file, fires) == Cleared(file)

\* the dirty-files store after one gate invocation
StopDirty(file, fires) == IF fires THEN Cleared(file) ELSE file

\* mutant: the event log is not truncated
StopEventsKeep(file, fires) == file

\* the session-events store after one gate invocation
StopEvents(file, fires) == IF fires THEN Cleared(file) ELSE file

\* what one gate invocation prints
StopOutput(dfile, efile, fires) == IF fires THEN Decision(dfile, efile) ELSE NoOutput

\* lines 19-20: mkdir and touch have no handler around them; touch_ok says
\* whether the state directory lets the latch be created
LatchRaises(pd, flag, touch_ok) == pd # <<>> /\ ~flag /\ ~touch_ok

Stop(touch_ok) ==
    LET raises == LatchRaises(project_dir, flag_file, touch_ok)
        fires  == GateFires(project_dir, flag_file) /\ ~raises
    IN /\ now' = now + 1
       /\ err' = raises
       /\ last' = "gate"
       /\ lastCall' = NoCall
       /\ gateCalls' = gateCalls + 1
       /\ flag_file' = (flag_file \/ fires)
       /\ out' = StopOutput(dirty_file, event_file, fires)
       /\ dirty_file' = StopDirty(dirty_file, fires)
       /\ event_file' = StopEvents(event_file, fires)
       /\ reports' = IF out'.decision = "block" THEN Append(reports, out') ELSE reports
       /\ consumed' = IF fires
                      THEN [lines  |-> consumed.lines \o ReadLines(dirty_file),
                            events |-> consumed.events \o GateEvents(event_file)]
                      ELSE consumed
       /\ UNCHANGED <<project_dir, config>>

(* The sorted, capped file list of .claude-plugin/hooks/stop.py, line 49 *)

ReportCap == 20

\* the atoms of stored lines in the order of their text (code points)
AtomOrder ==
    <<" [", "/", ": ", "]", "a", "b", "c", "d", "e", "f", "h", "m", "p", "q", "x">>

AtomRank(a) == CHOOSE i \in DOMAIN AtomOrder : AtomOrder[i] = a

\* Python: s < t on str
RECURSIVE LexLess(_, _)
LexLess(s, t) ==
    IF t = <<>> THEN FALSE
    ELSE IF s = <<>> THEN TRUE
    ELSE IF Head(s) = Head(t) THEN LexLess(Tail(s), Tail(t))
    ELSE AtomRank(Head(s)) < AtomRank(Head(t))

\* Python: sorted(S) for a set of str
RECURSIVE Sorted(_)
Sorted(S) ==
    IF S = {} THEN <<>>
    ELSE LET m == CHOOSE x \in S : \A y \in S \ {x} : LexLess(x, y)
         IN <<m>> \o Sorted(S \ {m})

-----------------------------------------------------------------------------
(* Inputs *)

ProjectDir == <<SL, "p">>

PathA == <<SL, "p", SL, "a">>

PathF == <<SL, "p", SL, "f">>

\* a file name that contains " ["
PathW == <<SL, "p", SL, "a", BR, "b">>

PathOut == <<SL, "q", SL, "x">>

ToolInput(tool, path, command) ==
    [tool_name |-> tool, file_path |-> path, command |-> command]

CmdCommit == <<"git", SP, "commit", SP, "-m", SP, "x">>

Inputs ==
    { ToolInput("Edit", PathA, <<>>),
      ToolInput("Edit", PathF, <<>>),
      ToolInput("Write", PathW, <<>>),
      ToolInput("Edit", PathOut, <<>>),
      ToolInput("", PathF, <<>>),
      ToolInput("Read", PathA, <<>>),
      ToolInput("Bash", <<>>, <<"ls", SP, "-la">>),
      ToolInput("Bash", <<>>, <<"rm", SP, "-f", SP, "b", SP, "&&", SP, "echo">>),
      ToolInput("Bash", <<>>, CmdCommit) }

GitResults ==
    { NoGit,
      GitMissing,
      GitRun(0, <<"h", SP, "m">>, 1, <<>>),
      GitRun(0, <<"h", SP, "m">>, 0, << <<"a">> >>),
      GitRun(0, <<"h", SP, "m">>, 0, << <<"a", BR, "b">> >>),
      GitRun(0, <<"h", SP, "m">>, 0,
             << <<"a">>, <<"b">>, <<"c">>, <<"d">>, <<"e">>, <<"f">> >>) }

GitFor(inp) == IF is_git_commit(inp) THEN GitResults ELSE {NoGit}

-----------------------------------------------------------------------------
(* Specification *)

\* the recorder processes that may overlap in the race specification
Procs == {"r1", "r2"}

\* a recorder process that is not running
Idle == [pc |-> "idle", inp |-> NoInput, git |-> NoGit, existing |-> NoFile]

NoRace ==
    [live        |-> {},
     interleaved |-> FALSE,
     wiped       |-> [p \in Procs |-> FALSE],
     missed      |-> [p \in Procs |-> {}]]

Init ==
    /\ project_dir \in {<<>>, ProjectDir}
    /\ config \in {"default", "gitmode"}
    /\ flag_file = FALSE
    /\ dirty_file = NoFile
    /\ event_file = NoFile
    /\ now = 0
    /\ last = "none"
    /\ lastCall = NoCall
    /\ out = NoOutput
    /\ reports = <<>>
    /\ consumed = [lines |-> <<>>, events |-> <<>>]
    /\ gateCalls = 0
    /\ inflight = [p \in Procs |-> Idle]
    /\ race = NoRace
    /\ err = FALSE

RecorderStep ==
    /\ now < MaxTime
    /\ \E inp \in Inputs : \E git \in GitFor(inp) : PostToolUse(inp, git)
    /\ UNCHANGED <<inflight, race>>

GateStep ==
    /\ now < MaxTime
    /\ \E touch_ok \in BOOLEAN : Stop(touch_ok)
    /\ UNCHANGED <<inflight, race>>

Next == RecorderStep \/ GateStep

Spec == Init /\ [][Next]_vars

(* The event-cap specification: one project in default mode, one kind of  *)
(* tool record, enough invocations to fill the log beyond EventsCap.      *)

EvInputs == { ToolInput("Edit", PathA, <<>>) }

InitEv ==
    /\ Init
    /\ project_dir = ProjectDir
    /\ config = "default"

RecorderStepEv ==
    /\ now < MaxEvTime
    /\ \E inp \in EvInputs : PostToolUse(inp, NoGit)
    /\ UNCHANGED <<inflight, race>>

GateStepEv ==
    /\ now < MaxEvTime /\ gateCalls < MaxEvGates
    /\ Stop(TRUE)
    /\ UNCHANGED <<inflight, race>>

NextEv == RecorderStepEv \/ GateStepEv

SpecEv == InitEv /\ [][NextEv]_vars

(* The filter specification: one project, and tool records whose paths   *)
(* lie on both sides of every test of should_track.                      *)

MaxFilterTime == 3

DotClaude == ".claude"
ClaudeMd == "CLAUDE.md"
DotDot == ".."

FilterPaths ==
    { PathA,
      PathOut,
      <<SL, "p", SL, DotClaude, SL, "x">>,
      <<SL, "p", SL, ClaudeMd>>,
      <<SL, "p", SL, "s", SL, ClaudeMd>>,
      <<SL, "p", SL, "s", SL, DotClaude, SL, "x">>,
      <<SL, "p", SL, DotDot, SL, "q", SL, "x">>,
      <<"a">> }

FilterInputs ==
    {ToolInput("Edit", f, <<>>) : f \in FilterPaths}
    \cup { ToolInput("", <<SL, "p", SL, DotClaude, SL, "x">>, <<>>),
           ToolInput("", PathF, <<>>),
           ToolInput("Bash", <<>>, <<"rm", SP, DotClaude, SL, "x", SP, "b">>),
           ToolInput("Bash", <<>>, <<"rm", SP, DotDot, SL, "q", SL, "x">>),
           ToolInput("Bash", <<>>, CmdCommit) }

FilterGitResults ==
    { GitRun(0, <<"h", SP, "m">>, 0,
             << <<DotClaude, SL, "x">>, <<ClaudeMd>>, <<"a">> >>) }

InitFilter ==
    /\ Init
    /\ project_dir = ProjectDir

RecorderStepFilter ==
    /\ now < MaxFilterTime
    /\ \E inp \in FilterInputs :
          \E git \in (IF is_git_commit(inp) THEN FilterGitResults ELSE {NoGit}) :
             PostToolUse(inp, git)
    /\ UNCHANGED <<inflight, race>>

GateStepFilter == now < MaxFilterTime /\ Stop(TRUE) /\ UNCHANGED <<inflight, race>>

NextFilter == RecorderStepFilter \/ GateStepFilter

SpecFilter == InitFilter /\ [][NextFilter]_vars

(* The shell specification: one project in default mode, and Bash tool    *)
(* records that are not commit events.                                   *)

MaxBashTime == 3

BashCommands ==
    { <<"ls", SP, "-la">>,
      <<"git", SP, "status">>,
      <<"rm", SP, "-f", SP, "a", SP, "b", SP, "&&", SP, "echo", SP, "d">>,
      <<"rm", SP, "a", ";", SP, "echo", SP, "d">>,
      <<"git", SP, "rm", SP, "-r", SP, "c", SP, ">", SP, "x">>,
      <<"mv", SP, "a", SP, "b">>,
      <<"git", SP, "mv", SP, "-f", SP, "a", SP, "b">>,
      <<"mv", SP, "a">>,
      <<"git", SP, "mv", SP, "a">>,
      <<"unlink", SP, "c">>,
      <<"touch", SP, "c">>,
      <<"sudo", SP, "rm", SP, "a">>,
      <<"rm", SP, QT, "a", SP, "b">> }

BashInputs == {ToolInput("Bash", <<>>, c) : c \in BashCommands}

InitBash ==
    /\ Init
    /\ project_dir = ProjectDir
    /\ config = "default"

RecorderStepBash ==
    /\ now < MaxBashTime
    /\ \E inp \in BashInputs : PostToolUse(inp, NoGit)
    /\ UNCHANGED <<inflight, race>>

GateStepBash == now < MaxBashTime /\ Stop(TRUE) /\ UNCHANGED <<inflight, race>>

NextBash == RecorderStepBash \/ GateStepBash

SpecBash == InitBash /\ [][NextBash]_vars

(* The race specification: one project in default mode, two recorder     *)
(* processes whose read of dirty-files (lines 218-226) and write-back     *)
(* (lines 235-249) are separate steps, and the gate.                      *)

MaxRaceTime == 7

GitNamesA == GitRun(0, <<"h", SP, "m">>, 0, << <<"a">> >>)

\* the tool records each process may be started with, and what git answers
RaceCalls(p) ==
    IF p = "r1"
    THEN { [inp |-> ToolInput("Bash", <<>>, CmdCommit), git |-> GitNamesA] }
    ELSE { [inp |-> ToolInput("Edit", PathF, <<>>), git |-> NoGit],
           [inp |-> ToolInput("Write", PathW, <<>>), git |-> NoGit] }

Reading(p) == inflight[p].pc = "read"

\* some other recorder process stands between its read and its write-back
Overlaps(p) == \E q \in Procs \ {p} : Reading(q)

\* lines 165-226: the invocation gets as far as reading the store
RecorderRead(p, call) ==
    /\ ~Reading(p)
    /\ RecorderExit(call.inp, call.git) = "written"
    /\ inflight' = [inflight EXCEPT ![p] = [pc |-> "read", inp |-> call.inp,
                                            git |-> call.git, existing |-> dirty_file]]
    /\ race' = [race EXCEPT !.interleaved = @ \/ Overlaps(p),
                            !.wiped[p] = FALSE,
                            !.missed[p] = {}]
    /\ now' = now + 1
    /\ UNCHANGED <<project_dir, config, flag_file, dirty_file, event_file, last,
                   lastCall, out, reports, consumed, gateCalls, err>>

\* lines 228-249: the merge into what was read, the write-back and the event
RecorderWrite(p) ==
    LET own == Range(Trackable(inflight[p].inp, project_dir, inflight[p].git))
    IN /\ Reading(p)
       /\ WriteBack(inflight[p].existing, inflight[p].inp, inflight[p].git)
       /\ inflight' = [inflight EXCEPT ![p] = Idle]
       /\ race' = [race EXCEPT
                     !.live = @ \cup own,
                     !.interleaved = @ \/ Overlaps(p),
                     !.missed = [q \in Procs |->
                                   IF q # p /\ Reading(q) THEN @[q] \cup own ELSE @[q]]]

\* the gate, while recorder processes may stand between read and write-back
GateRace ==
    LET fires == GateFires(project_dir, flag_file)
    IN /\ Stop(TRUE)
       /\ race' = [race EXCEPT
                     !.live = IF fires THEN {} ELSE @,
                     !.interleaved = @ \/ \E q \in Procs : Reading(q),
                     !.wiped = [q \in Procs |-> @[q] \/ (fires /\ Reading(q))]]
       /\ UNCHANGED inflight

InitRace ==
    /\ Init
    /\ project_dir = ProjectDir
    /\ config = "default"

RecorderReadStep ==
    now < MaxRaceTime /\ \E p \in Procs : \E call \in RaceCalls(p) : RecorderRead(p, call)

RecorderWriteStep == now < MaxRaceTime /\ \E p \in Procs : RecorderWrite(p)

GateStepRace == now < MaxRaceTime /\ GateRace

NextRace == RecorderReadStep \/ RecorderWriteStep \/ GateStepRace

SpecRace == InitRace /\ [][NextRace]_vars

-----------------------------------------------------------------------------
(* Properties of the turn gate *)

\* C1: in one session at most one gate invocation prints a blocking
\* decision: the invocation that sets the latch prints it, and a gate
\* invocation that finds the latch prints nothing.
C1_LatchFiresOnce ==
    [][ /\ Len(reports') <= 1
        /\ (last' = "gate" /\ ~flag_file /\ flag_file') => out'.decision = "block"
        /\ (last' = "gate" /\ flag_file) => out' = NoOutput ]_vars

\* recorder, gate, gate: the first gate call blocked on a non-empty dirty
\* set, the second one printed nothing
C1_Witness ==
    /\ now = 3 /\ gateCalls = 2 /\ last = "gate"
    /\ Len(reports) = 1 /\ reports[1].files # <<>>
    /\ out = NoOutput

\* C2: a gate invocation that finds the dirty set empty prints nothing,
\* whatever the event log holds.
C2_EmptyDirtySetPassesThrough ==
    [][(last' = "gate" /\ ReadLines(dirty_file) = <<>>) => out' = NoOutput]_vars

AllReported(lines) ==
    \A i \in DOMAIN lines : \E r \in DOMAIN reports : lines[i] \in Range(reports[r].files)

C4_FiredGateIsNoOp ==
    [][(last' = "gate" /\ flag_file) =>
          /\ out' = NoOutput
          /\ dirty_file' = dirty_file
          /\ event_file' = event_file
          /\ flag_file' = flag_file ]_vars

\* a gate invocation in state FIRED with entries and events in the stores
C4_Witness ==
    /\ last = "gate" /\ gateCalls >= 2 /\ flag_file
    /\ ReadLines(dirty_file) # <<>>
    /\ event_file.lines # <<>>

\* C5: right after the gate invocation that sets the latch both stores read
\* as empty.
C5_StoresEmptyAfterFirstGate ==
    [][(last' = "gate" /\ ~flag_file /\ flag_file') =>
          /\ ReadLines(dirty_file') = <<>>
          /\ GateEvents(event_file') = <<>> ]_vars

\* the first gate invocation found entries and events and left none
C5_Witness ==
    /\ last = "gate" /\ gateCalls = 1 /\ flag_file
    /\ consumed.lines # <<>> /\ consumed.events # <<>>
    /\ ReadLines(dirty_file) = <<>> /\ GateEvents(event_file) = <<>>

-----------------------------------------------------------------------------
(* Properties of the dirty set and the event log *)

ModelPaths == {<<SL, "p", SL, x>> : x \in {"a", "b", "c", "d", "e", "f"}} \cup {PathW}

ModelContext == [present |-> TRUE, hash |-> <<"h">>, message |-> <<"m">>]

\* the positions of the store that hold an entry for path p
EntriesOf(p, file) ==
    {i \in DOMAIN ReadLines(file) :
        ReadLines(file)[i] \in {p, ContextLine(p, ModelContext)}}

HasContext(p, file) == ContextLine(p, ModelContext) \in Range(ReadLines(file))

Plain(p, file) == p \in Range(ReadLines(file)) /\ ~HasContext(p, file)

\* the recorder invocation that has just run wrote the stores
Wrote(call) ==
    /\ project_dir # <<>>
    /\ ~(config = "gitmode" /\ ~is_git_commit(call.inp))
    /\ Trackable(call.inp, project_dir, call.git) # <<>>

\* the step is a recorder invocation that merges p, with or without context
Merges(p, call, withContext) ==
    /\ Wrote(call)
    /\ p \in Range(Trackable(call.inp, project_dir, call.git))
    /\ commit_context(call.inp, project_dir, call.git).present = withContext

\* C6: the store holds at most one entry per path, and a recorder invocation
\* that repeats the previous one leaves the store as it was.
C6_OneEntryPerPath ==
    [][ /\ \A p \in ModelPaths : Cardinality(EntriesOf(p, dirty_file')) <= 1
        /\ (last = "recorder" /\ last' = "recorder" /\ lastCall' = lastCall)
              => dirty_file' = dirty_file ]_vars

\* C7: a context-less merge of P keeps a context-less P context-less, a
\* commit merge of P attaches the context, and a context-less merge of P
\* never removes the context P carries.
C7_ContextIsSticky ==
    [][ last' = "recorder" =>
          \A p \in ModelPaths :
             /\ (Merges(p, lastCall', FALSE) /\ Plain(p, dirty_file))
                   => Plain(p, dirty_file')
             /\ Merges(p, lastCall', TRUE) => HasContext(p, dirty_file')
             /\ (Merges(p, lastCall', FALSE) /\ HasContext(p, dirty_file))
                   => HasContext(p, dirty_file') ]_vars

\* the path of the entry a stored line holds
PathOf(line) ==
    CHOOSE p \in ModelPaths : line \in {p, ContextLine(p, ModelContext)}

PathsOf(lines) == [i \in DOMAIN lines |-> PathOf(lines[i])]

\* C8: the paths a blocking decision lists are in sorted order and are among
\* the FilesCap smallest paths of the sorted, capped read of the dirty set.
C8_DecisionListsSortedPaths ==
    \A r \in DOMAIN reports :
        LET listed   == PathsOf(reports[r].files)
            smallest == Take(Take(Sorted(Range(PathsOf(consumed.lines))), ReportCap),
                             FilesCap)
        IN /\ \A i, j \in DOMAIN listed : i < j => ~LexLess(listed[j], listed[i])
           /\ Range(listed) \subseteq Range(smallest)

\* C9: a recorder invocation that passes the trigger-mode check appends
\* exactly one session event.
C9_OneEventPerInvocation ==
    [][ ( /\ last' = "recorder"
          /\ project_dir # <<>>
          /\ ~(config = "gitmode" /\ ~is_git_commit(lastCall'.inp)) )
        => /\ Len(event_file'.lines) = Len(event_file.lines) + 1
           /\ SubSeq(event_file'.lines, 1, Len(event_file.lines)) = event_file.lines
       ]_vars

-----------------------------------------------------------------------------
(* Properties of the recorder's classification *)

\* C12: in gitmode a recorder invocation that is not a commit event leaves
\* the dirty set and the event log as they were, and a commit event that
\* yields trackable paths is recorded with its context and its event.
C12_GitmodeTracksCommitsOnly ==
    [][ (last' = "recorder" /\ config = "gitmode") =>
          IF ~is_git_commit(lastCall'.inp)
          THEN /\ dirty_file' = dirty_file
               /\ event_file' = event_file
               /\ out' = NoOutput /\ ~err'
          ELSE Wrote(lastCall') =>
               /\ Len(event_file'.lines) = Len(event_file.lines) + 1
               /\ \A p \in Range(Trackable(lastCall'.inp, project_dir, lastCall'.git)) :
                     ContextLine(p, ModelContext) \in Range(ReadLines(dirty_file')) ]_vars

\* in gitmode a commit was recorded and the Edit of another file after it
\* was discarded
C12_Witness ==
    /\ config = "gitmode" /\ last = "recorder"
    /\ lastCall.inp = ToolInput("Edit", PathF, <<>>)
    /\ HasContext(PathA, dirty_file)
    /\ EntriesOf(PathF, dirty_file) = {}
    /\ Len(event_file.lines) = 1

-----------------------------------------------------------------------------
(* Properties of the failure paths *)

\* C16: a gate invocation in state IDLE that finds a non-empty dirty set
\* prints the blocking decision and does not end in an error, also when the
\* latch cannot be created.
C16_GateEvaluatesWithoutLatch ==
    [][ ( /\ last' = "gate"
          /\ project_dir # <<>>
          /\ ~flag_file
          /\ ReadLines(dirty_file) # <<>> )
        => (out'.decision = "block" /\ ~err') ]_vars

\* a line of the store that carries a commit context
IsContextLine(line) == line # <<>> /\ line[Len(line)] = "]"

\* the recorder invocation that has just run was a commit event whose git
\* subprocess failed
GitFailed(call) ==
    /\ is_git_commit(call.inp)
    /\ (~call.git.spawn \/ call.git.log_rc # 0 \/ call.git.diff_rc # 0)

\* C17: a commit event whose git subprocess fails ends without an error and
\* writes no entry with a commit context.
C17_GitFailureIsSilent ==
    [][ ( /\ last' = "recorder"
          /\ project_dir # <<>>
          /\ GitFailed(lastCall') )
        => /\ ~err'
           /\ out' = NoOutput
           /\ \A i \in DOMAIN ReadLines(dirty_file') :
                 IsContextLine(ReadLines(dirty_file')[i])
                    => ReadLines(dirty_file')[i] \in Range(ReadLines(dirty_file)) ]_vars

-----------------------------------------------------------------------------
(* Properties of the stores once the latch is set *)

\* C18: once the latch is set no hook invocation removes anything from the
\* stores or reports anything: every path that has an entry keeps one, the
\* events written so far stay a prefix of the log, and no report is made.
C18_NothingLeavesAfterLatch ==
    [][ flag_file =>
          /\ \A p \in ModelPaths :
                EntriesOf(p, dirty_file) # {} => EntriesOf(p, dirty_file') # {}
          /\ Len(event_file'.lines) >= Len(event_file.lines)
          /\ SubSeq(event_file'.lines, 1, Len(event_file.lines)) = event_file.lines
          /\ reports' = reports ]_vars

\* C19: the key the reload recovers from a stored line is the path the line
\* was written for, so a merge of that path finds its entry.
C19_LineKeyRoundTrips ==
    \A i \in DOMAIN ReadLines(dirty_file) :
        LET line == ReadLines(dirty_file)[i]
        IN /\ LineKey(line) = PathOf(line)
           /\ HasKey(LoadExisting(ReadLines(dirty_file), <<>>), PathOf(line))

-----------------------------------------------------------------------------
(* Properties of the path filter *)

\* the path a stored line was written for; no path of FilterPaths holds " ["
StoredPath(line) == LineKey(line)

\* C11: every path stored in the dirty set lies inside the project root, has
\* no segment equal to .claude at any depth, and is not named CLAUDE.md.
C11_StoredPathsPassFilter ==
    \A i \in DOMAIN ReadLines(dirty_file) :
        LET p == StoredPath(ReadLines(dirty_file)[i])
        IN /\ IsAbs(p)
           /\ StartsWith(Parts(Resolve(p)), Parts(project_dir))
           /\ \A j \in DOMAIN Parts(p) : Parts(p)[j] # <<DotClaude>>
           /\ Parts(p)[Len(Parts(p))] # <<ClaudeMd>>

-----------------------------------------------------------------------------
(* Properties of the shell-command extraction *)

\* the words of a command as the shell reads them, blanks separating
Words(command) == SelectSeq(Split(Strip(command), SP), NonEmpty)

OperatorAtoms == {"&&", "||", ";", "|", ">", ">>", "<", "2>", "2>&1"}

\* every quote of the command is closed
Parseable(command) ==
    Cardinality({i \in DOMAIN command : command[i] = QT}) % 2 = 0

CommandKind(command) ==
    LET w == Words(command)
    IN IF w = <<>> THEN "other"
       ELSE IF w[1] = <<"rm">> THEN "rm"
       ELSE IF w[1] = <<"mv">> THEN "mv"
       ELSE IF w[1] = <<"unlink">> THEN "unlink"
       ELSE IF w[1] = <<"git">> /\ Len(w) >= 2 /\ w[2] = <<"rm">> THEN "git rm"
       ELSE IF w[1] = <<"git">> /\ Len(w) >= 2 /\ w[2] = <<"mv">> THEN "git mv"
       ELSE "other"

\* the words after the command name
CommandArgs(command) ==
    Drop(Words(command), IF CommandKind(command) \in {"git rm", "git mv"} THEN 2 ELSE 1)

\* position of the first control operator inside a word, 0 when there is none
FirstOperator(word) ==
    LET I == {i \in DOMAIN word : word[i] \in OperatorAtoms}
    IN IF I = {} THEN 0 ELSE CHOOSE i \in I : \A j \in I : i <= j

\* the non-flag arguments in front of the first control operator, whether
\* the operator stands alone or is attached to an argument
RECURSIVE ArgsBeforeOperator(_)
ArgsBeforeOperator(words) ==
    IF words = <<>> THEN <<>>
    ELSE LET w == Head(words)
             i == FirstOperator(w)
             pre == SubSeq(w, 1, i - 1)
         IN IF i = 0
            THEN (IF IsFlag(w) THEN <<>> ELSE <<w>>) \o ArgsBeforeOperator(Tail(words))
            ELSE IF pre # <<>> /\ ~IsFlag(pre) THEN <<pre>> ELSE <<>>

\* the entries the arguments stand for
ExpectedPaths(args) ==
    {f \in {Resolve(JoinPath(project_dir, a)) : a \in Range(args)} :
        should_track(f, project_dir)}

\* the step is a recorder invocation for a Bash command that is no commit
BashStep(call) ==
    /\ project_dir # <<>> /\ config = "default"
    /\ call.inp.tool_name = "Bash"
    /\ ~is_git_commit(call.inp)

\* C13: a Bash invocation that is no commit event changes the dirty set only
\* for rm, mv, unlink, git rm and git mv; a read-only command and a command
\* with an open quote leave it as it was; no such invocation ends in an error.
C13_OnlyFileCommandsTrack ==
    [][ (last' = "recorder" /\ BashStep(lastCall')) =>
          LET command == lastCall'.inp.command
          IN /\ ~err' /\ out' = NoOutput
             /\ dirty_file' # dirty_file =>
                   /\ CommandKind(command) \in {"rm", "mv", "unlink", "git rm", "git mv"}
                   /\ Parseable(command)
             /\ command \in {<<"git", SP, "status">>, <<"ls", SP, "-la">>} =>
                   dirty_file' = dirty_file ]_vars

\* an rm put an entry in the store, and the read-only command after it left
\* the store alone
C13_Witness ==
    /\ last = "recorder"
    /\ lastCall.inp = ToolInput("Bash", <<>>, <<"git", SP, "status">>)
    /\ <<SL, "p", SL, "a">> \in Range(ReadLines(dirty_file))
    /\ ~err

\* C14: after an rm or git rm command the dirty set has gained exactly the
\* non-flag arguments in front of the first control operator.
C14_RemoveStopsAtOperator ==
    [][ ( /\ last' = "recorder" /\ BashStep(lastCall')
          /\ Parseable(lastCall'.inp.command)
          /\ CommandKind(lastCall'.inp.command) \in {"rm", "git rm"} )
        => Range(ReadLines(dirty_file')) =
              Range(ReadLines(dirty_file))
                 \cup ExpectedPaths(ArgsBeforeOperator(CommandArgs(lastCall'.inp.command))) ]_vars

\* C15: after a mv or git mv command the dirty set has gained exactly the
\* first non-flag argument, the same for both commands.
C15_MoveTracksSource ==
    [][ ( /\ last' = "recorder" /\ BashStep(lastCall')
          /\ Parseable(lastCall'.inp.command)
          /\ CommandKind(lastCall'.inp.command) \in {"mv", "git mv"} )
        => Range(ReadLines(dirty_file')) =
              Range(ReadLines(dirty_file))
                 \cup ExpectedPaths(Take(ArgsBeforeOperator(CommandArgs(lastCall'.inp.command)), 1)) ]_vars

-----------------------------------------------------------------------------
(* Properties of overlapping invocations *)

\* the paths that have an entry in the store
StoredPaths(file) == {x \in ModelPaths : EntriesOf(x, file) # {}}

\* the write-back of process p brought back what the gate had cleared since
\* p's read
Reappear(p) ==
    race.wiped[p] => StoredPaths(inflight[p].existing) \subseteq StoredPaths(dirty_file')

\* the write-back of process p dropped what other recorders wrote since p's
\* read
LostUpdate(p) ==
    \A x \in race.missed[p] :
        \/ x \in StoredPaths(inflight[p].existing)
        \/ x \in Range(Trackable(inflight[p].inp, project_dir, inflight[p].git))
        \/ x \notin StoredPaths(dirty_file')

\* C20: a write-back that follows a clear or another recorder's write since
\* its own read brings the cleared entries back or drops the other
\* recorder's paths; as long as no invocations have overlapped the store
\* holds exactly the paths recorded since the last clear.
C20_AnomaliesOnlyWhenInterleaved ==
    [][ /\ \A p \in Procs :
              (Reading(p) /\ inflight'[p].pc = "idle") => (Reappear(p) /\ LostUpdate(p))
        /\ ~race'.interleaved => StoredPaths(dirty_file') = race'.live ]_vars

====
